---------------------------- MODULE Spec2Model ----------------------------
(***************************************************************************)
(* A model of latest-pythons.py: the version selector                      *)
(* (parse_asdf_output, is_valid_version, get_latest_asdf_versions), the    *)
(* default-packages file writer (create_default_python_packages_file) and  *)
(* the installer (install_python_versions).                                *)
(*                                                                         *)
(* A Python str is a sequence of characters; a character is a one-element  *)
(* string, except U+00B2 SUPERSCRIPT TWO, written "sup2".                  *)
(***************************************************************************)
EXTENDS Integers, Sequences, FiniteSets, TLC

VARIABLES
    pc,          \* position of the running function
    count,       \* the count argument
    output,      \* the text handed to get_latest_asdf_versions
    versions,    \* the list get_latest_asdf_versions returned
    raised,      \* the exception that left the function, or "none"
    file,        \* ~/.default-python-packages: Absent, or its content
    oldfile,     \* the file as it was before create_default_python_packages_file
    log,         \* the external commands and prompts issued, in order
    response,    \* the answer read by input(), after strip().lower()
    failed,      \* the versions whose 'asdf install' failed
    exitStatus   \* the process's exit status, or -1 while it runs

vars == <<pc, count, output, versions, raised, file, oldfile, log, response,
          failed, exitStatus>>

-----------------------------------------------------------------------------
(* Bounds of the model.                                                    *)

\* The greatest number of lines of a version listing.
MaxLines == 2

\* The greatest count argument.
MaxCount == 3

-----------------------------------------------------------------------------
(* Python's str and int operations, as far as the program uses them.       *)

DecDigits == <<"0", "1", "2", "3", "4", "5", "6", "7", "8", "9">>

IsDecimal(c) == \E i \in 1..Len(DecDigits) : DecDigits[i] = c

DecValue(c) == (CHOOSE i \in 1..Len(DecDigits) : DecDigits[i] = c) - 1

\* str.isdigit() on one character: true of the decimal digits and also of
\* characters with Numeric_Type=Digit such as U+00B2.
CharIsDigit(c) == IsDecimal(c) \/ c = "sup2"

\* str.isdigit(): every character is a digit and there is at least one.
isdigit(s) == Len(s) > 0 /\ \A i \in 1..Len(s) : CharIsDigit(s[i])

\* str.isspace() on one character.
CharIsSpace(c) == c \in {" ", "\t", "\r", "\n"}

RECURSIVE lstrip(_)
lstrip(s) ==
    IF Len(s) > 0 /\ CharIsSpace(Head(s)) THEN lstrip(Tail(s)) ELSE s

RECURSIVE rstrip(_)
rstrip(s) ==
    IF Len(s) > 0 /\ CharIsSpace(s[Len(s)])
    THEN rstrip(SubSeq(s, 1, Len(s) - 1))
    ELSE s

\* str.strip()
strip(s) == rstrip(lstrip(s))

\* str.lower() on one character, for the letters of the model's answers.
CharLower(c) ==
    CASE c = "Y" -> "y"
      [] c = "N" -> "n"
      [] c = "E" -> "e"
      [] c = "S" -> "s"
      [] OTHER -> c

\* str.lower()
lower(s) == [i \in 1..Len(s) |-> CharLower(s[i])]

\* str.startswith(prefix)
startswith(s, prefix) ==
    Len(s) >= Len(prefix) /\ SubSeq(s, 1, Len(prefix)) = prefix

\* str.split(sep) for a one-character separator: the pieces between the
\* separators, empty pieces kept.
RECURSIVE split(_, _)
split(s, sep) ==
    IF \E i \in 1..Len(s) : s[i] = sep
    THEN LET i == CHOOSE k \in 1..Len(s) :
                      s[k] = sep /\ \A j \in 1..(k - 1) : s[j] # sep
         IN  <<SubSeq(s, 1, i - 1)>> \o split(SubSeq(s, i + 1, Len(s)), sep)
    ELSE <<s>>

\* sep.join(parts) for a one-character separator.
RECURSIVE join(_, _)
join(parts, sep) ==
    IF Len(parts) = 0 THEN <<>>
    ELSE IF Len(parts) = 1 THEN parts[1]
    ELSE parts[1] \o <<sep>> \o join(Tail(parts), sep)

\* int(s) succeeds on a string of decimal digits; on a string that holds
\* U+00B2 it raises ValueError.
IntRaises(s) == \E i \in 1..Len(s) : ~IsDecimal(s[i])

\* int(s) for a string of decimal digits.
RECURSIVE int(_)
int(s) ==
    IF Len(s) = 0 THEN 0
    ELSE 10 * int(SubSeq(s, 1, Len(s) - 1)) + DecValue(s[Len(s)])

\* str(n) for n >= 0, as an f-string formats an int.
RECURSIVE str(_)
str(n) ==
    IF n < 10 THEN <<DecDigits[n + 1]>>
    ELSE str(n \div 10) \o <<DecDigits[(n % 10) + 1]>>

\* ord(c) for the characters of a formatted version string.
ord(c) == IF c = "." THEN 46 ELSE 48 + DecValue(c)

\* a < b for two str: by code point, a proper prefix first.
RECURSIVE StrLess(_, _)
StrLess(a, b) ==
    IF Len(b) = 0 THEN FALSE
    ELSE IF Len(a) = 0 THEN TRUE
    ELSE IF Head(a) = Head(b) THEN StrLess(Tail(a), Tail(b))
    ELSE ord(Head(a)) < ord(Head(b))

\* a < b for two (minor, patch) tuples of int.
PairLess(a, b) == a[1] < b[1] \/ (a[1] = b[1] /\ a[2] < b[2])


\* list.sort(reverse=True) on (minor, patch) tuples: insertion of each element
\* after the elements that are not less than it.
RECURSIVE InsertPairDesc(_, _)
InsertPairDesc(p, sorted) ==
    IF Len(sorted) = 0 THEN <<p>>
    ELSE IF PairLess(Head(sorted), p) THEN <<p>> \o sorted
    ELSE <<Head(sorted)>> \o InsertPairDesc(p, Tail(sorted))

RECURSIVE SortPairsDesc(_)
SortPairsDesc(pairs) ==
    IF Len(pairs) = 0 THEN <<>>
    ELSE InsertPairDesc(pairs[Len(pairs)],
                        SortPairsDesc(SubSeq(pairs, 1, Len(pairs) - 1)))

\* sorted(strings, reverse=True): the strings compared as str.
RECURSIVE InsertStrDesc(_, _)
InsertStrDesc(s, sorted) ==
    IF Len(sorted) = 0 THEN <<s>>
    ELSE IF StrLess(Head(sorted), s) THEN <<s>> \o sorted
    ELSE <<Head(sorted)>> \o InsertStrDesc(s, Tail(sorted))

RECURSIVE SortStrDesc(_)
SortStrDesc(strings) ==
    IF Len(strings) = 0 THEN <<>>
    ELSE InsertStrDesc(strings[Len(strings)],
                       SortStrDesc(SubSeq(strings, 1, Len(strings) - 1)))

\* The elements of a set of int as a list, one iteration order of a set.
RECURSIVE SetToSeq(_)
SetToSeq(S) ==
    IF S = {} THEN <<>>
    ELSE LET m == CHOOSE x \in S : \A y \in S : x <= y
         IN  <<m>> \o SetToSeq(S \ {m})

-----------------------------------------------------------------------------
(* The version selector.                                                   *)

\* parse_asdf_output: the stripped lines that are not blank and begin with a
\* digit.
parse_asdf_output(text) ==
    LET lines == split(text, "\n")
        stripped == [i \in 1..Len(lines) |-> strip(lines[i])]
    IN  SelectSeq(stripped, LAMBDA l : Len(l) > 0 /\ CharIsDigit(l[1]))

\* is_valid_version: three parts between dots, each passing str.isdigit().
is_valid_version(version) ==
    LET parts == split(version, ".")
    IN  Len(parts) = 3 /\ \A i \in 1..3 : isdigit(parts[i])

\* valid_versions of get_latest_asdf_versions.
valid_versions(text) ==
    SelectSeq(parse_asdf_output(text),
              LAMBDA v : startswith(v, <<"3", ".">>) /\ is_valid_version(v))

\* The list comprehension of minor_patch_versions raises ValueError when
\* int() is given a part that is no decimal number.
ParseRaises(text) ==
    LET vv == valid_versions(text)
    IN  \E i \in 1..Len(vv) :
            IntRaises(split(vv[i], ".")[2]) \/ IntRaises(split(vv[i], ".")[3])

\* minor_patch_versions of get_latest_asdf_versions, after its sort.
minor_patch_versions(text) ==
    LET vv == valid_versions(text)
    IN  SortPairsDesc([i \in 1..Len(vv) |->
            <<int(split(vv[i], ".")[2]), int(split(vv[i], ".")[3])>>])

\* latest_minors of get_latest_asdf_versions: the walk over the sorted
\* pairs from position i on, left when the set holds cnt minors.
RECURSIVE latest_minors(_, _, _, _)
latest_minors(mpv, i, acc, cnt) ==
    IF i > Len(mpv) THEN acc
    ELSE LET next == acc \cup {mpv[i][1]}
         IN  IF Cardinality(next) = cnt THEN next
             ELSE latest_minors(mpv, i + 1, next, cnt)

\* The mutant of highest_patch that compares the patches as text.
highest_patch_as_text(minor, mpv) ==
    LET patches == {mpv[i][2] : i \in {k \in 1..Len(mpv) : mpv[k][1] = minor}}
    IN  CHOOSE p \in patches :
            \A q \in patches : q = p \/ StrLess(str(q), str(p))

\* highest_patch of get_latest_asdf_versions: the greatest patch among the
\* pairs of one minor.
highest_patch(minor, mpv) ==
    LET patches == {mpv[i][2] : i \in {k \in 1..Len(mpv) : mpv[k][1] = minor}}
    IN  CHOOSE p \in patches : \A q \in patches : q <= p

\* The value get_latest_asdf_versions returns when it does not raise.
get_latest_asdf_versions(text, cnt) ==
    LET mpv == minor_patch_versions(text)
        minors == SetToSeq(latest_minors(mpv, 1, {}, cnt))
        selected_versions ==
            [i \in 1..Len(minors) |->
                <<"3", ".">> \o str(minors[i]) \o <<".">>
                    \o str(highest_patch(minors[i], mpv))]
    IN  SortStrDesc(selected_versions)

-----------------------------------------------------------------------------
(* The inputs of the selector.                                             *)

\* The line "3.<minor>.<patch>" of a listing.
VersionLine(minor, patch) == <<"3", ".">> \o minor \o <<".">> \o patch

\* The lines a listing is made of: versions of the minors 9, 10 and 11 with
\* one- and two-digit patches, a padded line, a minor with a leading zero,
\* and the lines the selector is to leave out: a blank line, "3.13",
\* "3.13.0rc1", "abc.1.2", "2.7.18" and "3.1" U+00B2 ".0".
LinePool ==
    { VersionLine(<<"9">>, <<"1">>),
      VersionLine(<<"1", "0">>, <<"0">>),
      VersionLine(<<"1", "0">>, <<"9">>),
      VersionLine(<<"1", "0">>, <<"1", "0">>),
      VersionLine(<<"1", "1">>, <<"2">>),
      <<" ">> \o VersionLine(<<"1", "1">>, <<"4">>) \o <<" ">>,
      VersionLine(<<"0", "1", "0">>, <<"1", "1">>),
      <<>>,
      <<"3", ".", "1", "3">>,
      <<"3", ".", "1", "3", ".", "0", "r", "c", "1">>,
      <<"a", "b", "c", ".", "1", ".", "2">>,
      <<"2", ".", "7", ".", "1", "8">>,
      VersionLine(<<"1", "sup2">>, <<"0">>) }

\* The listings of at most n lines.
Texts(n) ==
    {join(ls, "\n") : ls \in UNION {[1..k -> LinePool] : k \in 0..n}}

NoFile == [exists |-> FALSE, content |-> <<>>]

-----------------------------------------------------------------------------
(* get_latest_asdf_versions applied to every listing and count.            *)

Init ==
    /\ pc = "get_latest_asdf_versions"
    /\ output \in Texts(MaxLines)
    /\ count \in 1..MaxCount
    /\ versions = <<>>
    /\ raised = "none"
    /\ file = NoFile
    /\ oldfile = NoFile
    /\ log = <<>>
    /\ response = <<>>
    /\ failed = {}
    /\ exitStatus = -1

\* The call returns its list.
GetLatestReturns ==
    /\ pc = "get_latest_asdf_versions"
    /\ ~ParseRaises(output)
    /\ versions' = get_latest_asdf_versions(output, count)
    /\ pc' = "returned"
    /\ UNCHANGED <<count, output, raised, file, oldfile, log, response,
                   failed, exitStatus>>

\* The call is left by the ValueError of int().
GetLatestRaises ==
    /\ pc = "get_latest_asdf_versions"
    /\ ParseRaises(output)
    /\ raised' = "ValueError"
    /\ pc' = "raised"
    /\ UNCHANGED <<count, output, versions, file, oldfile, log, response,
                   failed, exitStatus>>

Next == GetLatestReturns \/ GetLatestRaises

Spec == Init /\ [][Next]_vars

-----------------------------------------------------------------------------
(* create_default_python_packages_file.                                    *)

pip == <<"p", "i", "p">>

setuptools == <<"s", "e", "t", "u", "p", "t", "o", "o", "l", "s">>

wheel == <<"w", "h", "e", "e", "l">>

\* packages of create_default_python_packages_file.
packages == <<pip, setuptools, wheel>>

\* file.readlines(): the pieces between the newlines; what follows the last
\* newline is a line only when it is not empty.
readlines(content) ==
    LET parts == split(content, "\n")
    IN  IF Len(parts[Len(parts)]) = 0
        THEN SubSeq(parts, 1, Len(parts) - 1)
        ELSE parts

\* existing_packages: the stripped lines of the file.
existing_packages(content) ==
    {strip(readlines(content)[i]) : i \in 1..Len(readlines(content))}

\* What the loop over packages writes: each package not in skip, with a
\* newline after it.
RECURSIVE WritePackages(_, _)
WritePackages(pkgs, skip) ==
    IF Len(pkgs) = 0 THEN <<>>
    ELSE (IF Head(pkgs) \in skip THEN <<>> ELSE Head(pkgs) \o <<"\n">>)
             \o WritePackages(Tail(pkgs), skip)

\* The file after create_default_python_packages_file: appended to when it
\* exists, written anew when it does not.
create_default_python_packages_file(f) ==
    IF f.exists
    THEN [exists |-> TRUE,
          content |-> f.content
                        \o WritePackages(packages, existing_packages(f.content))]
    ELSE [exists |-> TRUE, content |-> WritePackages(packages, {})]

\* The greatest number of lines of a default-packages file before the call.
MaxFileLines == 2

\* The lines such a file is made of.
FileLinePool ==
    { pip, setuptools, wheel,
      <<"r", "e", "q", "u", "e", "s", "t", "s">>,
      <<" ">> \o pip \o <<" ">>,
      <<>> }

\* The file before the call: absent, or at most n lines, the last with or
\* without its newline.
Files(n) ==
    {NoFile} \cup
    {[exists |-> TRUE, content |-> join(ls, "\n") \o end] :
        ls \in UNION {[1..k -> FileLinePool] : k \in 0..n},
        end \in {<<>>, <<"\n">>}}

\* An event of the log.
Event(cmd, args) == [cmd |-> cmd, args |-> args]

\* The call of create_default_python_packages_file, then on to position to.
CreateFile(to) ==
    /\ pc = "create_default_python_packages_file"
    /\ oldfile' = file
    /\ file' = create_default_python_packages_file(file)
    /\ log' = Append(log, Event("create_default_python_packages_file", <<>>))
    /\ pc' = to
    /\ UNCHANGED <<count, output, versions, raised, response, failed, exitStatus>>

InitFile ==
    /\ pc = "create_default_python_packages_file"
    /\ file \in Files(MaxFileLines)
    /\ oldfile = file
    /\ count = 1
    /\ output = <<>>
    /\ versions = <<>>
    /\ raised = "none"
    /\ log = <<>>
    /\ response = <<>>
    /\ failed = {}
    /\ exitStatus = -1

NextFile == CreateFile("created")

SpecFile == InitFile /\ [][NextFile]_vars

-----------------------------------------------------------------------------
(* install_python_versions.                                                *)

\* What the call versions = get_latest_asdf_versions(output, count=count)
\* can come to, over the listings the command may print. The listing is a
\* local of the step that reads it; a run keeps only versions.
ListingOutcomes ==
    {[cnt |-> c,
      raises |-> ParseRaises(t),
      versions |-> IF ParseRaises(t) THEN <<>> ELSE get_latest_asdf_versions(t, c)] :
        t \in Texts(MaxLines), c \in 1..MaxCount}

\* The lines the user may type at the prompt.
Answers ==
    { <<>>, <<" ">>, <<"y">>, <<"Y">>, <<" ", "y", " ">>,
      <<"n">>, <<"N">>, <<"y", "e", "s">> }

\* The file before the run.
InstallFiles == {NoFile, [exists |-> TRUE, content |-> pip \o <<"\n">>]}

\* The mutant of Cancelled that takes only "n" for a refusal.
CancelledOnlyOnN(r) == r = <<"n">>

\* if response and response != 'y'
Cancelled(r) == Len(r) > 0 /\ r # <<"y">>

\* The mutant of AfterFailedInstall that leaves the run at the first failed
\* install.
AfterFailedInstallAbort(n) == "exit"

\* The position after the n-th 'asdf install' failed: the except clause
\* continues the loop.
AfterFailedInstall(n) == IF n = Len(versions) THEN "global" ELSE "install"

Installs == SelectSeq(log, LAMBDA e : e.cmd = "asdf install python")

\* An uncaught exception ends the process with a traceback and status 1.
Crash(exception) ==
    /\ raised' = exception
    /\ pc' = "crashed"
    /\ exitStatus' = 1

\* except subprocess.CalledProcessError: ... sys.exit(1)
SysExit ==
    /\ raised' = "CalledProcessError"
    /\ pc' = "exit"
    /\ exitStatus' = 1

\* install_python_versions returns and the script ends.
Return ==
    /\ pc' = "done"
    /\ exitStatus' = 0
    /\ UNCHANGED raised

\* add_asdf_python_plugin: 'asdf plugin list', and 'asdf plugin add python'
\* when the list does not name python. A failed list is reported and the run
\* goes on; without an asdf executable the call raises FileNotFoundError,
\* which nothing catches.
AddPlugin ==
    /\ pc = "add_asdf_python_plugin"
    /\ \/ /\ log' = Append(log, Event("asdf plugin list", <<>>))
          /\ Crash("FileNotFoundError")
       \/ /\ log' = Append(log, Event("asdf plugin list", <<>>))
          /\ pc' = "asdf_version"
          /\ UNCHANGED <<raised, exitStatus>>
       \/ /\ log' = log \o <<Event("asdf plugin list", <<>>),
                               Event("asdf plugin add python", <<>>)>>
          /\ pc' = "asdf_version"
          /\ UNCHANGED <<raised, exitStatus>>
    /\ UNCHANGED <<count, output, versions, file, oldfile, response, failed>>

\* subprocess.run(['asdf', '--version'], check=True)
AsdfVersion ==
    /\ pc = "asdf_version"
    /\ log' = Append(log, Event("asdf --version", <<>>))
    /\ \/ /\ pc' = "list_all"
          /\ UNCHANGED <<raised, exitStatus>>
       \/ SysExit
    /\ UNCHANGED <<count, output, versions, file, oldfile, response, failed>>

\* 'asdf list all python' fails.
ListAllFails ==
    /\ pc = "list_all"
    /\ log' = Append(log, Event("asdf list all python", <<>>))
    /\ SysExit
    /\ UNCHANGED <<count, output, versions, file, oldfile, response, failed>>

\* 'asdf list all python' prints a listing; the selector runs on it; with no
\* version the run ends, otherwise the versions and the global default are
\* announced.
ListAll ==
    /\ pc = "list_all"
    /\ \E o \in ListingOutcomes :
          /\ o.cnt = count
          /\ \/ /\ o.raises
                /\ log' = Append(log, Event("asdf list all python", <<>>))
                /\ Crash("ValueError")
                /\ UNCHANGED versions
             \/ /\ ~o.raises
                /\ o.versions = <<>>
                /\ log' = Append(log, Event("asdf list all python", <<>>))
                /\ Return
                /\ UNCHANGED versions
             \/ /\ ~o.raises
                /\ o.versions # <<>>
                /\ versions' = o.versions
                /\ log' = log \o <<Event("asdf list all python", <<>>),
                                     Event("print global default", <<o.versions[1]>>)>>
                /\ pc' = "input"
                /\ UNCHANGED <<raised, exitStatus>>
    /\ UNCHANGED <<count, output, file, oldfile, response, failed>>

\* response = input("Do you want to continue? [Y/n]: ").strip().lower()
\* and the test of the response; at the end of the input, EOFError.
Input ==
    /\ pc = "input"
    /\ \/ /\ log' = Append(log, Event("input", <<>>))
          /\ Crash("EOFError")
          /\ UNCHANGED response
       \/ \E answer \in Answers :
             /\ log' = Append(log, Event("input", <<answer>>))
             /\ response' = lower(strip(answer))
             /\ IF Cancelled(response')
                THEN Return
                ELSE /\ pc' = "install"
                     /\ UNCHANGED <<raised, exitStatus>>
    /\ UNCHANGED <<count, output, versions, file, oldfile, failed>>

\* One turn of the loop: subprocess.run(['asdf', 'install', 'python',
\* version], check=True), which succeeds or fails.
Install ==
    /\ pc = "install"
    /\ LET n == Len(Installs) + 1
       IN  /\ log' = Append(log, Event("asdf install python", <<versions[n]>>))
           /\ \/ /\ pc' = IF n = Len(versions) THEN "global" ELSE "install"
                 /\ UNCHANGED failed
              \/ /\ pc' = AfterFailedInstall(n)
                 /\ failed' = failed \cup {n}
    /\ UNCHANGED <<count, output, versions, raised, file, oldfile, response,
                   exitStatus>>

\* subprocess.run(['asdf', 'global', 'python'] + versions, check=True)
Global ==
    /\ pc = "global"
    /\ log' = Append(log, Event("asdf global python", versions))
    /\ \/ /\ pc' = "list"
          /\ UNCHANGED <<raised, exitStatus>>
       \/ SysExit
    /\ UNCHANGED <<count, output, versions, file, oldfile, response, failed>>

\* subprocess.check_output(['asdf', 'list', 'python'])
ListInstalled ==
    /\ pc = "list"
    /\ log' = Append(log, Event("asdf list python", <<>>))
    /\ \/ Return
       \/ SysExit
    /\ UNCHANGED <<count, output, versions, file, oldfile, response, failed>>

InitInstall ==
    /\ pc = "create_default_python_packages_file"
    /\ count \in 1..MaxCount
    /\ file \in InstallFiles
    /\ oldfile = file
    /\ output = <<>>
    /\ versions = <<>>
    /\ raised = "none"
    /\ log = <<>>
    /\ response = <<>>
    /\ failed = {}
    /\ exitStatus = -1

NextInstall ==
    \/ CreateFile("add_asdf_python_plugin")
    \/ AddPlugin
    \/ AsdfVersion
    \/ ListAllFails
    \/ ListAll
    \/ Input
    \/ Install
    \/ Global
    \/ ListInstalled

SpecInstall == InitInstall /\ [][NextInstall]_vars

-----------------------------------------------------------------------------
(* What the claims about the selector speak of.                            *)

\* The lines of the listing, as split('\n') sees them.
InputLines == split(output, "\n")

\* An eligible line: after trimming, exactly three non-empty parts of decimal
\* digits between dots, the first of them "3".
Eligible(line) ==
    LET parts == split(strip(line), ".")
    IN  /\ Len(parts) = 3
        /\ \A i \in 1..3 :
              Len(parts[i]) > 0 /\ \A k \in 1..Len(parts[i]) : IsDecimal(parts[i][k])
        /\ parts[1] = <<"3">>

MinorOf(line) == int(split(strip(line), ".")[2])

PatchOf(line) == int(split(strip(line), ".")[3])

EligibleLines(lines) == {i \in 1..Len(lines) : Eligible(lines[i])}

\* The distinct minor numbers among the eligible lines.
EligibleMinors(lines) == {MinorOf(lines[i]) : i \in EligibleLines(lines)}

Min(a, b) == IF a <= b THEN a ELSE b

\* The n numerically greatest elements of a set of numbers.
Greatest(S, n) == {x \in S : Cardinality({y \in S : y > x}) < n}

\* The listing with its ineligible lines removed.
WithoutIneligible(lines) == join(SelectSeq(lines, Eligible), "\n")

\* The listing with lines i and i + 1 exchanged.
Swapped(lines, i) ==
    join([k \in 1..Len(lines) |->
            IF k = i THEN lines[i + 1] ELSE IF k = i + 1 THEN lines[i] ELSE lines[k]],
         "\n")

\* The listing with line i repeated at its end.
Duplicated(lines, i) == join(Append(lines, lines[i]), "\n")

\* C1: the returned list is strictly descending by minor number, the minors
\* compared as integers.
C1_DescendingByMinor ==
    pc = "returned" =>
        \A i \in 1..(Len(versions) - 1) :
            MinorOf(versions[i]) > MinorOf(versions[i + 1])

\* C2: for every listing and count the call returns exactly min(count, d)
\* entries, d the number of distinct eligible minors; every entry has major
\* 3, no two share a minor, and the minors are the min(count, d) greatest.
C2_CountAndMinors ==
    pc # "get_latest_asdf_versions" =>
        LET minors == EligibleMinors(InputLines)
            n == Min(count, Cardinality(minors))
        IN  /\ pc = "returned"
            /\ Len(versions) = n
            /\ \A i \in 1..Len(versions) : Eligible(versions[i])
            /\ \A i, j \in 1..Len(versions) :
                  i # j => MinorOf(versions[i]) # MinorOf(versions[j])
            /\ {MinorOf(versions[i]) : i \in 1..Len(versions)} = Greatest(minors, n)

\* C3: every returned entry carries the numerically greatest patch among the
\* eligible lines of its minor, and exchanging two lines or repeating a line
\* of the listing changes neither the returned list nor whether the call
\* returns.
C3_MaxPatchAnyOrder ==
    /\ pc = "returned" =>
          /\ \A i \in 1..Len(versions) :
                LET same == {k \in EligibleLines(InputLines) :
                                MinorOf(InputLines[k]) = MinorOf(versions[i])}
                IN  /\ same # {}
                    /\ \E k \in same : PatchOf(InputLines[k]) = PatchOf(versions[i])
                    /\ \A k \in same : PatchOf(InputLines[k]) <= PatchOf(versions[i])
          /\ \A i \in 1..(Len(InputLines) - 1) :
                /\ ~ParseRaises(Swapped(InputLines, i))
                /\ get_latest_asdf_versions(Swapped(InputLines, i), count) = versions
          /\ \A i \in 1..Len(InputLines) :
                /\ ~ParseRaises(Duplicated(InputLines, i))
                /\ get_latest_asdf_versions(Duplicated(InputLines, i), count) = versions
    /\ pc = "raised" =>
          /\ \A i \in 1..(Len(InputLines) - 1) : ParseRaises(Swapped(InputLines, i))
          /\ \A i \in 1..Len(InputLines) : ParseRaises(Duplicated(InputLines, i))

\* C3's case: the call has returned an entry for a minor of which the listing
\* holds a greater patch before a smaller one, the greater with more digits.
C3_Witness ==
    /\ pc = "returned"
    /\ \E i, j \in EligibleLines(InputLines) :
          /\ i < j
          /\ MinorOf(InputLines[i]) = MinorOf(InputLines[j])
          /\ PatchOf(InputLines[i]) > PatchOf(InputLines[j])
          /\ Len(str(PatchOf(InputLines[i]))) > Len(str(PatchOf(InputLines[j])))
          /\ \E k \in 1..Len(versions) :
                MinorOf(versions[k]) = MinorOf(InputLines[i])

\* C4: the call on the listing and the call on the listing without its
\* ineligible lines end alike: both return the same list.
C4_IneligibleIgnored ==
    pc # "get_latest_asdf_versions" =>
        /\ pc = "returned"
        /\ ~ParseRaises(WithoutIneligible(InputLines))
        /\ get_latest_asdf_versions(WithoutIneligible(InputLines), count) = versions

\* C5: the call never raises, and a listing without an eligible line yields
\* the empty list.
C5_NeverRaises ==
    pc # "get_latest_asdf_versions" =>
        /\ pc = "returned"
        /\ raised = "none"
        /\ (EligibleLines(InputLines) = {} => versions = <<>>)

-----------------------------------------------------------------------------
(* What the claim about the default-packages file speaks of.               *)

\* The lines of a file: what precedes each newline, and what follows the
\* last newline when that is not empty.
FileLines(content) ==
    LET parts == split(content, "\n")
    IN  {parts[i] : i \in {k \in 1..Len(parts) : k < Len(parts) \/ Len(parts[k]) > 0}}

\* C7: after the call each of pip, setuptools and wheel is a complete line of
\* the file (blanks around it aside), and the content of a file that existed
\* is a prefix of the new content.
C7_PackagesAreLines ==
    pc = "created" =>
        /\ file.exists
        /\ \A i \in 1..Len(packages) :
              \E l \in FileLines(file.content) : strip(l) = packages[i]
        /\ (oldfile.exists => startswith(file.content, oldfile.content))

-----------------------------------------------------------------------------
(* What the claims about install_python_versions speak of.                 *)

\* The positions of the log that hold the command cmd.
Issued(cmd) == {i \in 1..Len(log) : log[i].cmd = cmd}

LastCmd == IF Len(log) = 0 THEN "" ELSE log[Len(log)].cmd

\* The typed lines that, trimmed and lower-cased, are empty or "y".
Accepted == { <<>>, <<" ">>, <<"y">>, <<"Y">>, <<" ", "y", " ">> }

\* The user was asked and gave an accepted answer.
ConfirmedRun ==
    \E i \in Issued("input") : Len(log[i].args) = 1 /\ log[i].args[1] \in Accepted

\* The place of a command in the order of a run.
Rank(cmd) ==
    CASE cmd = "create_default_python_packages_file" -> 1
      [] cmd \in {"asdf plugin list", "asdf plugin add python"} -> 2
      [] cmd = "asdf --version" -> 3
      [] cmd \in {"asdf list all python", "print global default"} -> 4
      [] cmd = "input" -> 5
      [] cmd = "asdf install python" -> 6
      [] cmd = "asdf global python" -> 7
      [] cmd = "asdf list python" -> 8

\* C6: the version announced as the global default and given first to 'asdf
\* global python' has the numerically greatest minor of the selected versions.
C6_GlobalIsNewest ==
    \A i \in Issued("print global default") \cup Issued("asdf global python") :
        \A k \in 1..Len(versions) :
            MinorOf(log[i].args[1]) >= MinorOf(versions[k])

\* C8: an install or global command is issued only for a non-empty selection
\* and after an accepted answer; an empty selection ends the run without a
\* prompt; any other answer ends the run there; and the events of a run come
\* in the order file, plugin check, listing, prompt, installs, global.
C8_OnlyAfterConfirmation ==
    /\ \A i \in Issued("asdf install python") \cup Issued("asdf global python") :
          /\ versions # <<>>
          /\ \E j \in Issued("input") :
                j < i /\ Len(log[j].args) = 1 /\ log[j].args[1] \in Accepted
    /\ (pc = "done" /\ versions = <<>>) =>
          Issued("input") = {} /\ LastCmd = "asdf list all python"
    /\ \A j \in Issued("input") :
          (Len(log[j].args) = 0 \/ log[j].args[1] \notin Accepted) =>
              j = Len(log) /\ pc \in {"done", "crashed"}
    /\ \A i, j \in 1..Len(log) : i < j => Rank(log[i].cmd) <= Rank(log[j].cmd)
    /\ Issued("asdf global python") # {} =>
          /\ Issued("create_default_python_packages_file") = {1}
          /\ Issued("asdf plugin list") = {2}
          /\ Cardinality(Issued("asdf list all python")) = 1
          /\ Cardinality(Issued("input")) = 1
          /\ Cardinality(Issued("asdf install python")) = Len(versions)

\* C8's case: a run that was confirmed with a padded or upper-case answer and
\* went through its installs and the global command.
C8_Witness ==
    /\ pc = "done"
    /\ Issued("asdf global python") # {}
    /\ \E j \in Issued("input") : log[j].args[1] \in {<<"Y">>, <<" ", "y", " ">>}

\* C9: in a confirmed run every selected version is installed once, in the
\* order of the list, whether or not an install fails; then 'asdf global
\* python' is issued once with the whole list; and the run ends with status 1
\* only when the version check, the listing, the global command or the final
\* listing failed.
C9_FailedInstallGoesOn ==
    /\ Len(Installs) <= Len(versions)
    /\ \A n \in 1..Len(Installs) : Installs[n].args = <<versions[n]>>
    /\ failed \subseteq 1..Len(Installs)
    /\ LastCmd = "asdf install python" => pc \in {"install", "global"}
    /\ pc = "install" => Len(Installs) < Len(versions)
    /\ pc = "global" => Len(Installs) = Len(versions)
    /\ Cardinality(Issued("asdf global python")) <= 1
    /\ \A i \in Issued("asdf global python") :
          /\ log[i].args = versions
          /\ Len(Installs) = Len(versions)
          /\ \A j \in Issued("asdf install python") : j < i
    /\ (ConfirmedRun /\ pc \in {"list", "done", "exit"}) =>
          Cardinality(Issued("asdf global python")) = 1
    /\ (exitStatus = 1 /\ raised = "CalledProcessError") =>
          LastCmd \in {"asdf --version", "asdf list all python",
                       "asdf global python", "asdf list python"}
    /\ (ConfirmedRun /\ exitStatus = 1) =>
          /\ raised = "CalledProcessError"
          /\ LastCmd \in {"asdf global python", "asdf list python"}
    /\ pc = "exit" <=> (exitStatus = 1 /\ raised = "CalledProcessError")

\* C9's case: a confirmed run of two versions or more in which an install
\* failed and which went on to the global command and ended with status 0.
C9_Witness ==
    /\ pc = "done"
    /\ exitStatus = 0
    /\ failed # {}
    /\ Len(versions) >= 2
    /\ Issued("asdf global python") # {}

=============================================================================
